---- MODULE Spec2Model ----
(***************************************************************************)
(* Model of Net-main.py: NetplanWiFiManager and the interactive loop of    *)
(* main().  The state is the netplan directory, the backup directory, the  *)
(* wall clock, the position of the single thread of control and the        *)
(* locals of the operation in flight.  External commands, file-system      *)
(* errors and user input are the environment: every action draws them      *)
(* from small sets.                                                        *)
(***************************************************************************)
EXTENDS Integers, Sequences, FiniteSets, TLC

VARIABLES
    pc,         \* position of the thread of control
    files,      \* /etc/netplan/*.yaml : file name -> content
    backups,    \* /etc/netplan/backups : backup name -> content
    copies,     \* shutil.copy2 calls into the backup directory that succeeded
    now,        \* wall clock: the index of the current second among those seen
    ops,        \* menu actions started (bounded)
    op,         \* the operation in flight: "none", "scan", "connect", ...
    via,        \* who called connect_to_wifi: "menu2", "menu3", "api", "none"
    intent,     \* arguments of the connect_to_wifi call in flight
    readDoc,    \* content of the file get_current_netplan_config opened
    cur,        \* local current_config of connect_to_wifi
    stamp,      \* local timestamp of backup_netplan_config, <<>> before it ran
    steps,      \* steps run so far by the operation in flight, with outcome
    pre,        \* the netplan directory when the operation started
    pending,    \* disconnect_wifi: files of the glob not yet visited
    removed,    \* disconnect_wifi: files removed so far
    chk,        \* output and probe outcome check_connection last saw
    ret,        \* return value of the operation in flight
    networks,   \* result of the last scan_wifi_networks
    scanOut     \* lines the scan command printed to a direct scan_wifi_networks call

vars == <<pc, files, backups, copies, now, ops, op, via, intent, readDoc, cur,
          stamp, steps, pre, pending, removed, chk, ret, networks, scanOut>>

-----------------------------------------------------------------------------
(* Bounds of the model.                                                    *)

MaxOps == 1
MaxTime == 1

-----------------------------------------------------------------------------
(* Python dictionaries are functions with a finite domain of string keys.  *)

EmptyMap == [k \in {} |-> 0]

Put(m, k, v) == [j \in (DOMAIN m) \cup {k} |-> IF j = k THEN v ELSE m[j]]

Has(m, k) == k \in DOMAIN m

\* self.interface, fixed by detect_wifi_interface at construction
Interface == "wlan0"
OtherInterface == "wlan1"

\* Python's None where a string is expected
PyNone == "<None>"

\* the string '\x00' * 8 as iwlist prints it (escaped, eight times)
NullEssid == "\\x00\\x00\\x00\\x00\\x00\\x00\\x00\\x00"

-----------------------------------------------------------------------------
(* File contents.  A file holds text that yaml.safe_load rejects ("bad"),  *)
(* an empty document that loads as None ("none"), or a mapping ("map").    *)

NoFile == [kind |-> "absent"]
BadYaml == [kind |-> "bad"]
EmptyYaml == [kind |-> "none"]
MapYaml(m) == [kind |-> "map", map |-> m]

\* the file written by connect_to_wifi
ToolFile == "99-wifi-config.yaml"
SystemFile == "01-netcfg.yaml"
CustomFile == "99-custom.yaml"
FileNames == {SystemFile, CustomFile, ToolFile}

\* Path.stem of each *.yaml name
Stem(name) ==
    CASE name = SystemFile -> "01-netcfg"
      [] name = CustomFile -> "99-custom"
      [] name = ToolFile -> "99-wifi-config"

\* self.netplan_dir.glob('*.yaml'): every file of the directory is *.yaml
GlobYaml(dir) == {n \in FileNames : dir[n] # NoFile}

\* self.netplan_dir.glob('99-*.yaml')
Glob99(dir) == {n \in GlobYaml(dir) : n \in {CustomFile, ToolFile}}

-----------------------------------------------------------------------------
(* Sample documents found in the directory before the tool first runs.     *)

OtherBlock ==
    Put(Put(EmptyMap, "access-points", Put(EmptyMap, "Cafe", EmptyMap)),
        "dhcp4", TRUE)

OldStaticBlock ==
    Put(Put(Put(Put(Put(EmptyMap,
        "access-points", Put(EmptyMap, "OldNet", Put(EmptyMap, "password", "oldpass1"))),
        "dhcp4", FALSE),
        "addresses", <<"192.168.7.7/24">>),
        "gateway4", "192.168.7.1"),
        "nameservers", Put(EmptyMap, "addresses", <<"1.1.1.1">>))

MinNetwork == Put(Put(EmptyMap, "version", 2), "renderer", "networkd")

\* {'network': {'version': 2, 'renderer': 'networkd'}}
DefaultConfig == Put(EmptyMap, "network", MinNetwork)

\* a document with a further top-level key, an ethernets section and wifis
\* blocks for the target interface and for another one
FullConfig ==
    Put(Put(EmptyMap, "x-site", "lab-3"),
        "network",
        Put(Put(MinNetwork, "ethernets", "eth0-dhcp"),
            "wifis",
            Put(Put(EmptyMap, OtherInterface, OtherBlock), Interface, OldStaticBlock)))

\* a mapping without the top-level 'network' section
NoNetworkConfig == Put(EmptyMap, "x-site", "lab-3")

EthConfig == Put(EmptyMap, "network", Put(MinNetwork, "ethernets", "eth1-static"))

SystemContents ==
    {NoFile, BadYaml, EmptyYaml, MapYaml(NoNetworkConfig), MapYaml(DefaultConfig),
     MapYaml(FullConfig)}

CustomContents == {NoFile, MapYaml(EthConfig)}

-----------------------------------------------------------------------------
(* Arguments of connect_to_wifi(ssid, password, dhcp, static_ip).          *)

Ssid == "HomeNet"
Passphrase == "s3cret123"
Address == "10.0.0.50/24"
Gateway == "10.0.0.1"
Dns == "8.8.8.8"

MkIntent(s, p, d, h, st) ==
    [ssid |-> s, password |-> p, dhcp |-> d, hasStatic |-> h, static |-> st]

NoIntent == MkIntent("", PyNone, TRUE, FALSE, EmptyMap)

\* static_ip dictionaries a caller of the class can pass
ApiStatics ==
    {Put(EmptyMap, "address", Address),
     Put(Put(EmptyMap, "address", Address), "gateway", Gateway),
     Put(Put(EmptyMap, "address", Address), "dns", <<Dns>>),
     Put(Put(Put(EmptyMap, "address", Address), "gateway", Gateway), "dns", <<Dns>>),
     Put(EmptyMap, "gateway", Gateway)}

ApiIntents ==
    {MkIntent(Ssid, p, d, FALSE, EmptyMap) : p \in {PyNone, "", Passphrase}, d \in BOOLEAN}
    \cup
    {MkIntent(Ssid, p, d, TRUE, st) :
        p \in {PyNone, Passphrase}, d \in BOOLEAN, st \in ApiStatics}

\* mutant: only None counts as no password
TruthyStrNotNone(p) == p # PyNone

\* Python truthiness of the password and static_ip arguments
TruthyStr(p) == p # PyNone /\ p # ""
TruthyStatic(i) == i.hasStatic /\ DOMAIN i.static # {}

\* mutant: the static fields are applied whatever the dhcp argument says
StaticAppliesIgnoringDhcp(i) == TruthyStatic(i)

\* the condition "static_ip and not dhcp"
StaticApplies(i) == TruthyStatic(i) /\ ~i.dhcp

-----------------------------------------------------------------------------
(* connect_to_wifi, lines 146-169: the document it builds.                 *)

\* yaml.safe_load of the opened file raises
LoadRaises(content) == content.kind = "bad"

\* lines 147-149: the loaded document, or the default when it is falsy
\* (no file, an empty document, an empty mapping)
BaseConfig(content) ==
    IF content.kind = "map" /\ DOMAIN content.map # {}
    THEN content.map
    ELSE DefaultConfig

\* lines 155-169: the block assigned to wifis[self.interface]
AccessPoints(i) ==
    Put(EmptyMap, i.ssid,
        IF ~TruthyStr(i.password) THEN EmptyMap
        ELSE Put(EmptyMap, "password", i.password))

DhcpBlock(i) ==
    Put(Put(EmptyMap, "access-points", AccessPoints(i)), "dhcp4", i.dhcp)

WithGateway(b, i) ==
    IF Has(i.static, "gateway") THEN Put(b, "gateway4", i.static["gateway"]) ELSE b

WithNameservers(b, i) ==
    IF Has(i.static, "dns")
    THEN Put(b, "nameservers", Put(EmptyMap, "addresses", i.static["dns"]))
    ELSE b

StaticBlock(i) ==
    WithNameservers(
        WithGateway(
            Put(Put(DhcpBlock(i), "dhcp4", FALSE),
                "addresses", <<i.static["address"]>>), i), i)

WifiBlock(i) == IF StaticApplies(i) THEN StaticBlock(i) ELSE DhcpBlock(i)

\* line 152 raises KeyError without 'network'; line 165 without 'address'
MergeRaises(base, i) ==
    \/ ~Has(base, "network")
    \/ StaticApplies(i) /\ ~Has(i.static, "address")

\* lines 152-160: the wifis table with the target interface's block replaced
Wifis(base) ==
    IF Has(base["network"], "wifis") THEN base["network"]["wifis"] ELSE EmptyMap

\* mutant: the document is built from scratch, as create_netplan_config does
MergeFromScratch(base, i) ==
    Put(EmptyMap, "network",
        Put(MinNetwork, "wifis", Put(EmptyMap, Interface, WifiBlock(i))))

Merge(base, i) ==
    Put(base, "network",
        Put(base["network"], "wifis", Put(Wifis(base), Interface, WifiBlock(i))))

\* yaml.dump of a mapping; yaml.safe_load of the result gives the mapping back
Dump(doc) == MapYaml(doc)

-----------------------------------------------------------------------------
(* run_command and check_connection.                                       *)

\* what a command's standard output shows to the code that reads it
Output(nonempty, up, inet) == [nonempty |-> nonempty, stateUp |-> up, inet |-> inet]
NoOutput == Output(FALSE, FALSE, FALSE)
Outputs ==
    {NoOutput, Output(TRUE, FALSE, FALSE), Output(TRUE, FALSE, TRUE),
     Output(TRUE, TRUE, FALSE), Output(TRUE, TRUE, TRUE)}

\* how the process ends: exit 0, CalledProcessError, FileNotFoundError
Statuses == {"ok", "nonzero", "notfound"}

\* run_command: stdout on exit 0, None on CalledProcessError; any other
\* exception of subprocess.run is not caught
RunCommand(status, out) ==
    CASE status = "ok" -> [exc |-> FALSE, none |-> FALSE, out |-> out]
      [] status = "nonzero" -> [exc |-> FALSE, none |-> TRUE, out |-> NoOutput]
      [] OTHER -> [exc |-> TRUE, none |-> TRUE, out |-> NoOutput]

\* "not interface_status": None or the empty string
Falsy(r) == r.none \/ ~r.out.nonempty

\* mutant: a failed ping makes the check fail
CheckConnectionNeedsPing(r, ping) ==
    IF r.exc THEN "raise"
    ELSE IF Falsy(r) \/ ~r.out.stateUp \/ ~r.out.inet THEN "False"
    ELSE IF ping = "ok" THEN "True"
    ELSE "False"

\* check_connection given the result of run_command and the ping outcome:
\* "True", "False", or "raise" when run_command raised
CheckConnection(r, ping) ==
    IF r.exc THEN "raise"
    ELSE IF Falsy(r) THEN "False"
    ELSE IF ~r.out.stateUp THEN "False"
    ELSE IF ~r.out.inet THEN "False"
    ELSE IF ping = "ok" THEN "True"
    ELSE "True"

NoCheck == [status |-> "none", out |-> NoOutput, ping |-> "none"]

\* lines 236-240: the ping is run only when the earlier checks passed
ProbeRuns(r) == ~r.exc /\ ~Falsy(r) /\ r.out.stateUp /\ r.out.inet

\* what 'ip addr show' and ping answer to one check_connection: a failed
\* command prints nothing, a ping that is not run has no outcome
Responses ==
    {w \in [status : Statuses, out : Outputs, ping : {"ok", "fail", "none"}] :
        /\ w.status # "ok" => w.out = NoOutput
        /\ (w.ping # "none") = ProbeRuns(RunCommand(w.status, w.out))}

-----------------------------------------------------------------------------
(* scan_wifi_networks, lines 82-102: the line scan of the iwlist output.   *)

\* a line of the output, by the marker it carries
Line(kind, val) == [kind |-> kind, val |-> val]

MaxScanLines == 2

ScanAlphabet ==
    {Line("essid", Ssid), Line("essid", "Cafe"), Line("essid", ""),
     Line("essid", NullEssid), Line("key_on", ""), Line("key_off", ""),
     Line("wpa", ""), Line("wpa2", ""), Line("other", "")}

ScanOutputs == UNION {[1..n -> ScanAlphabet] : n \in 0..MaxScanLines}

\* 'Encryption key:' in line
HasKeyMarker(l) == l.kind \in {"key_on", "key_off"}

\* 'on' in line: every line with 'Encryption key:' holds "on" in "Encryption"
ContainsOn(l) == l.kind \in {"key_on", "key_off"}

SetLast(nets, enc) == [nets EXCEPT ![Len(nets)].encryption = enc]

\* one iteration of the loop over the lines; st = [nets, essid]
ParseLine(st, l) ==
    IF l.kind = "essid"
    THEN IF l.val # "" /\ l.val \notin {"", NullEssid}
         THEN [nets |-> Append(st.nets, [essid |-> l.val, encryption |-> "Desconocido"]),
               essid |-> l.val]
         ELSE st
    ELSE IF HasKeyMarker(l) /\ st.essid # PyNone
    THEN IF ContainsOn(l)
         THEN [st EXCEPT !.nets = SetLast(st.nets, "Protegida")]
         ELSE [st EXCEPT !.nets = SetLast(st.nets, "Abierta")]
    ELSE IF l.kind = "wpa" /\ st.essid # PyNone
    THEN [st EXCEPT !.nets = SetLast(st.nets, "WPA")]
    ELSE IF l.kind = "wpa2" /\ st.essid # PyNone
    THEN [st EXCEPT !.nets = SetLast(st.nets, "WPA2")]
    ELSE st

RECURSIVE ParseFrom(_, _)
ParseFrom(st, lines) ==
    IF lines = <<>> THEN st.nets
    ELSE ParseFrom(ParseLine(st, Head(lines)), Tail(lines))

ParseScan(lines) == ParseFrom([nets |-> <<>>, essid |-> PyNone], lines)

-----------------------------------------------------------------------------
(* Backup names.                                                           *)

\* f"{config_file.stem}_{timestamp}.yaml"
TimestampName(name, ts) == [prefix |-> "", base |-> Stem(name), stamp |-> <<ts>>]

\* f"disconnect_backup_{config_file.name}"
DisconnectName(name) == [prefix |-> "disconnect_backup_", base |-> name, stamp |-> <<>>]

\* shutil.copy2 of each file of S to its timestamped name
CopyAll(bk, dir, S, ts) ==
    [b \in (DOMAIN bk) \cup {TimestampName(n, ts) : n \in S} |->
        IF \E n \in S : b = TimestampName(n, ts)
        THEN dir[CHOOSE n \in S : b = TimestampName(n, ts)]
        ELSE bk[b]]

-----------------------------------------------------------------------------
(* The state after construction: the menu is shown, nothing is in flight.  *)

Step(name, ok) == [step |-> name, ok |-> ok]

Init ==
    /\ pc = "menu"
    /\ \E s \in SystemContents, c \in CustomContents :
          files = [n \in FileNames |->
                      IF n = SystemFile THEN s ELSE IF n = CustomFile THEN c ELSE NoFile]
    /\ backups = EmptyMap
    /\ copies = 0
    /\ now = 0
    /\ ops = 0
    /\ op = "none"
    /\ via = "none"
    /\ intent = NoIntent
    /\ readDoc = NoFile
    /\ cur = EmptyMap
    /\ stamp = <<>>
    /\ steps = <<>>
    /\ pre = files
    /\ pending = {}
    /\ removed = {}
    /\ chk = NoCheck
    /\ ret = "none"
    /\ networks = <<>>
    /\ scanOut = <<>>

\* the operator waits at the prompt while the clock runs
Tick ==
    /\ pc = "menu"
    /\ now < MaxTime
    /\ now' = now + 1
    /\ UNCHANGED <<stamp, pc, files, backups, copies, ops, op, via, intent, readDoc, cur, steps,
                   pre, pending, removed, chk, ret, networks, scanOut>>

-----------------------------------------------------------------------------
(* connect_to_wifi and apply_netplan_config, step by step.                 *)

\* connect_to_wifi is entered with the arguments i
BeginConnect(i, who) ==
    /\ pc' = "c_backup"
    /\ ops' = ops + 1
    /\ op' = "connect"
    /\ via' = who
    /\ intent' = i
    /\ pre' = files
    /\ steps' = <<>>
    /\ UNCHANGED <<stamp, files, backups, copies, now, readDoc, cur, pending, removed, chk,
                   ret, networks, scanOut>>

StartConnect(i, who) ==
    /\ pc = "menu"
    /\ ops < MaxOps
    /\ BeginConnect(i, who)

\* the except clauses of lines 181-183 and 205-207, and the early returns of
\* lines 192-197: the call returns False
ReturnFalse ==
    /\ ret' = "False"
    /\ pc' = "pause"

\* main, choice '2' (lines 331-345)
MenuConnectDhcp ==
    \E ssid \in {"", Ssid}, password \in {PyNone, "", Passphrase} :
        IF ssid = ""
        THEN /\ pc = "menu"
             /\ ops < MaxOps
             /\ ops' = ops + 1
             /\ UNCHANGED <<stamp, pc, files, backups, copies, now, op, via, intent, readDoc,
                            cur, steps, pre, pending, removed, chk, ret, networks, scanOut>>
        ELSE StartConnect(MkIntent(ssid, password, TRUE, FALSE, EmptyMap), "menu2")

\* ''.split(',') is [''], 'a'.split(',') is ['a']
SplitComma(text) == <<text>>

\* the static_config dictionary of lines 362-366
StaticConfig(ip, gateway, dns) ==
    Put(Put(Put(EmptyMap, "address", ip), "gateway", gateway), "dns", SplitComma(dns))

\* main, choice '3' (lines 347-371)
MenuConnectStatic ==
    \E ssid \in {"", Ssid}, password \in {Passphrase},
       ip \in {"", Address}, gateway \in {"", Gateway}, dns \in {"", Dns} :
        IF ssid = ""
        THEN /\ pc = "menu"
             /\ ops < MaxOps
             /\ ops' = ops + 1
             /\ UNCHANGED <<stamp, pc, files, backups, copies, now, op, via, intent, readDoc,
                            cur, steps, pre, pending, removed, chk, ret, networks, scanOut>>
        ELSE StartConnect(
                 MkIntent(ssid, password, FALSE, TRUE, StaticConfig(ip, gateway, dns)),
                 "menu3")

MaxRuns == 2

\* the arguments of the repeated calls
RerunIntents ==
    {MkIntent(Ssid, p, TRUE, FALSE, EmptyMap) : p \in {PyNone, Passphrase}}

\* connect_to_wifi called again and again by a user of the class
RerunConnect ==
    /\ pc = "menu"
    /\ ops < MaxRuns
    /\ \E i \in RerunIntents : BeginConnect(i, "api")

\* connect_to_wifi called once by a user of the class, on a fresh manager
ApiConnect ==
    /\ ops = 0
    /\ \E i \in ApiIntents : StartConnect(i, "api")

\* backup_netplan_config (line 144): the copies made before the first error
Backup ==
    /\ pc = "c_backup"
    /\ stamp' = <<now>>
    /\ \/ /\ backups' = CopyAll(backups, files, GlobYaml(files), now)
          /\ copies' = copies + Cardinality(GlobYaml(files))
          /\ steps' = Append(steps, Step("backup", TRUE))
          /\ pc' = "c_read"
          /\ ret' = ret
       \/ \E f \in GlobYaml(files) : \E S \in SUBSET (GlobYaml(files) \ {f}) :
             /\ backups' = CopyAll(backups, files, S, now)
             /\ copies' = copies + Cardinality(S)
             /\ steps' = Append(steps, Step("backup", FALSE))
             /\ ReturnFalse
    /\ UNCHANGED <<files, now, ops, op, via, intent, readDoc, cur, pre,
                   pending, removed, chk, networks, scanOut>>

\* config_files[0] of get_current_netplan_config: the directory order is not
\* specified, any file of the glob can come first
FirstConfig(dir) == IF GlobYaml(dir) = {} THEN {NoFile} ELSE {dir[n] : n \in GlobYaml(dir)}

\* lines 147-169: read the current document and merge the block into it
ReadMerge ==
    /\ pc = "c_read"
    /\ \E content \in FirstConfig(files) :
          /\ readDoc' = content
          /\ IF LoadRaises(content) \/ MergeRaises(BaseConfig(content), intent)
             THEN /\ steps' = Append(steps, Step("read", FALSE))
                  /\ ReturnFalse
                  /\ cur' = cur
             ELSE /\ cur' = Merge(BaseConfig(content), intent)
                  /\ steps' = Append(steps, Step("read", TRUE))
                  /\ pc' = "c_write"
                  /\ ret' = ret
    /\ UNCHANGED <<stamp, files, backups, copies, now, ops, op, via, intent, pre, pending,
                   removed, chk, networks, scanOut>>

\* lines 172-174: open the reserved file for writing and dump the document
WriteConfig ==
    /\ pc = "c_write"
    /\ \/ /\ files' = [files EXCEPT ![ToolFile] = Dump(cur)]
          /\ steps' = Append(steps, Step("write", TRUE))
          /\ pc' = "c_generate"
          /\ ret' = ret
       \/ /\ files' = files
          /\ steps' = Append(steps, Step("write", FALSE))
          /\ ReturnFalse
    /\ UNCHANGED <<stamp, backups, copies, now, ops, op, via, intent, readDoc, cur, pre,
                   pending, removed, chk, networks, scanOut>>

\* mutant: the None result of run_command is not tested
CommandFailsOnlyRaising(status) == RunCommand(status, NoOutput).exc

\* a command whose result is only tested against None (lines 191-197)
CommandFails(status) ==
    LET r == RunCommand(status, NoOutput) IN r.exc \/ r.none

Generate ==
    /\ pc = "c_generate"
    /\ \E status \in Statuses :
          /\ steps' = Append(steps, Step("generate", status = "ok"))
          /\ IF CommandFails(status)
             THEN ReturnFalse
             ELSE /\ pc' = "c_apply"
                  /\ ret' = ret
    /\ UNCHANGED <<stamp, files, backups, copies, now, ops, op, via, intent, readDoc, cur,
                   pre, pending, removed, chk, networks, scanOut>>

\* mutant: a failed 'netplan apply' restores the reserved file
ApplyWithRollback ==
    /\ pc = "c_apply"
    /\ \E status \in Statuses :
          /\ steps' = Append(steps, Step("apply", status = "ok"))
          /\ IF RunCommand(status, NoOutput).exc \/ RunCommand(status, NoOutput).none
             THEN /\ ReturnFalse
                  /\ files' = pre
             ELSE /\ pc' = "c_settle"
                  /\ ret' = ret
                  /\ files' = files
    /\ UNCHANGED <<stamp, backups, copies, now, ops, op, via, intent, readDoc, cur,
                   pre, pending, removed, chk, networks, scanOut>>

Apply ==
    /\ pc = "c_apply"
    /\ \E status \in Statuses :
          /\ steps' = Append(steps, Step("apply", status = "ok"))
          /\ IF CommandFails(status)
             THEN ReturnFalse
             ELSE /\ pc' = "c_settle"
                  /\ ret' = ret
    /\ UNCHANGED <<stamp, files, backups, copies, now, ops, op, via, intent, readDoc, cur,
                   pre, pending, removed, chk, networks, scanOut>>

\* time.sleep(10): the clock is in a later second afterwards
Settle ==
    /\ pc = "c_settle"
    /\ now' = now + 1
    /\ steps' = Append(steps, Step("settle", TRUE))
    /\ pc' = "c_verify"
    /\ UNCHANGED <<stamp, files, backups, copies, ops, op, via, intent, readDoc, cur, pre,
                   pending, removed, chk, ret, networks, scanOut>>

\* mutant: an exception inside check_connection is taken for success
VerifyResultOptimistic(c) == IF c = "raise" THEN "True" ELSE c

\* the return value of connect_to_wifi when check_connection ends with c
VerifyResult(c) == IF c = "raise" THEN "False" ELSE c

Verify ==
    /\ pc = "c_verify"
    /\ \E w \in Responses :
          LET c == CheckConnection(RunCommand(w.status, w.out), w.ping) IN
          /\ chk' = w
          /\ ret' = VerifyResult(c)
          /\ steps' = Append(steps, Step("verify", c = "True"))
    /\ pc' = "pause"
    /\ UNCHANGED <<stamp, files, backups, copies, now, ops, op, via, intent, readDoc, cur,
                   pre, pending, removed, networks, scanOut>>

-----------------------------------------------------------------------------
(* The other menu actions.                                                 *)

\* an exception leaves main(): the process ends with a traceback
Crash ==
    /\ pc' = "crashed"
    /\ ops' = ops + 1

\* lines 79-106: the scan command and the parse of its output, inside the
\* try; any exception gives the empty list
ScanResult(status, lines) ==
    LET r == RunCommand(status, lines) IN
    IF r.exc \/ r.none THEN <<>> ELSE ParseScan(r.out)

\* mutant: the except clause of line 104 does not cover None.split
ScanEscapesOnNone(r) == r.none

\* an exception of lines 79-102 leaves scan_wifi_networks: never, the except
\* clause of line 104 names Exception
ScanEscapes(r) == FALSE

\* the outputs the scan command can print: none unless it exits with 0
ScanPrints(status, outs) == IF status = "ok" THEN outs ELSE {<<>>}

\* scan_wifi_networks (lines 71-106) on a command that prints one of outs;
\* the command of line 76 runs outside the try
ScanWifiNetworks(outs, keep) ==
    \E up \in Statuses :
        IF RunCommand(up, NoOutput).exc
        THEN /\ Crash
             /\ steps' = <<Step("up", FALSE)>>
             /\ UNCHANGED <<now, op, networks, scanOut>>
        ELSE \E scan \in Statuses : \E lines \in ScanPrints(scan, outs) :
                /\ now' = now + 1
                /\ steps' = <<Step("up", up = "ok"), Step("scan", scan = "ok")>>
                /\ scanOut' = IF keep THEN lines ELSE scanOut
                /\ IF ScanEscapes(RunCommand(scan, lines))
                   THEN /\ Crash
                        /\ UNCHANGED <<op, networks>>
                   ELSE /\ networks' = ScanResult(scan, lines)
                        /\ op' = "scan"
                        /\ ops' = ops + 1
                        /\ pc' = "pause"

\* main, choice '1'
MenuScan ==
    /\ pc = "menu"
    /\ ops < MaxOps
    /\ ScanWifiNetworks(ScanOutputs, FALSE)
    /\ UNCHANGED <<stamp, files, backups, copies, via, intent, readDoc, cur, pre,
                   pending, removed, chk, ret>>

MaxCallLines == 3

CallOutputs == UNION {[1..n -> ScanAlphabet] : n \in 0..MaxCallLines}

\* scan_wifi_networks called once by a user of the class, on a fresh manager
ScanCall ==
    /\ pc = "menu"
    /\ ops = 0
    /\ ScanWifiNetworks(CallOutputs, TRUE)
    /\ UNCHANGED <<stamp, files, backups, copies, via, intent, readDoc, cur, pre,
                   pending, removed, chk, ret>>

\* main, choice '4': get_interface_status, then check_connection
MenuStatus ==
    /\ pc = "menu"
    /\ ops < MaxOps
    /\ \E info \in Statuses, wifi \in Statuses, w \in Responses :
          LET c == CheckConnection(RunCommand(w.status, w.out), w.ping) IN
          IF RunCommand(info, w.out).exc \/ RunCommand(wifi, NoOutput).exc \/ c = "raise"
          THEN /\ Crash
               /\ UNCHANGED <<op, chk, ret>>
          ELSE /\ chk' = w
               /\ ret' = c
               /\ op' = "status"
               /\ ops' = ops + 1
               /\ pc' = "pause"
    /\ UNCHANGED <<stamp, files, backups, copies, now, via, intent, readDoc, cur, steps, pre,
                   pending, removed, networks, scanOut>>

\* list_saved_networks raises: the load of line 69, or config['network']
ListRaises(content) ==
    \/ LoadRaises(content)
    \/ content.kind = "map" /\ DOMAIN content.map # {} /\ ~Has(content.map, "network")

\* main, choice '5': list_saved_networks (lines 266-278)
MenuList ==
    /\ pc = "menu"
    /\ ops < MaxOps
    /\ \E content \in FirstConfig(files) :
          /\ readDoc' = content
          /\ IF ListRaises(content)
             THEN /\ Crash
                  /\ op' = op
             ELSE /\ op' = "list"
                  /\ ops' = ops + 1
                  /\ pc' = "pause"
    /\ UNCHANGED <<stamp, files, backups, copies, now, via, intent, cur, steps, pre, pending,
                   removed, chk, ret, networks, scanOut>>

\* main, choice '6': disconnect_wifi starts the loop over glob('99-*.yaml')
MenuDisconnect ==
    /\ pc = "menu"
    /\ ops < MaxOps
    /\ pc' = "d_loop"
    /\ ops' = ops + 1
    /\ op' = "disconnect"
    /\ pending' = Glob99(files)
    /\ removed' = {}
    /\ pre' = files
    /\ steps' = <<>>
    /\ UNCHANGED <<stamp, files, backups, copies, now, via, intent, readDoc, cur, chk, ret,
                   networks, scanOut>>

\* lines 253-257: one iteration; an exception ends disconnect_wifi at line 263
DisconnectFile ==
    /\ pc = "d_loop"
    /\ \E f \in pending, copied \in BOOLEAN, status \in Statuses :
          LET r == RunCommand(status, NoOutput) IN
          IF ~copied
          THEN /\ steps' = Append(steps, Step("copy", FALSE))
               /\ pc' = "pause"
               /\ UNCHANGED <<files, backups, copies, pending, removed>>
          ELSE /\ backups' = Put(backups, DisconnectName(f), files[f])
               /\ copies' = copies + 1
               /\ IF r.exc
                  THEN /\ steps' = Append(steps, Step("rm", FALSE))
                       /\ pc' = "pause"
                       /\ UNCHANGED <<files, pending, removed>>
                  ELSE /\ steps' = Append(steps, Step("rm", ~r.none))
                       /\ files' = IF r.none THEN files ELSE [files EXCEPT ![f] = NoFile]
                       /\ removed' = IF r.none THEN removed ELSE removed \cup {f}
                       /\ pending' = pending \ {f}
                       /\ pc' = "d_loop"
    /\ UNCHANGED <<stamp, now, ops, op, via, intent, readDoc, cur, pre, chk, ret,
                   networks, scanOut>>

\* line 260: 'netplan apply' after the loop
DisconnectApply ==
    /\ pc = "d_loop"
    /\ pending = {}
    /\ \E status \in Statuses :
          steps' = Append(steps, Step("reapply", ~CommandFails(status)))
    /\ pc' = "pause"
    /\ UNCHANGED <<stamp, files, backups, copies, now, ops, op, via, intent, readDoc, cur,
                   pre, pending, removed, chk, ret, networks, scanOut>>

\* main, choice '7'
MenuExit ==
    /\ pc = "menu"
    /\ pc' = "exited"
    /\ UNCHANGED <<stamp, files, backups, copies, now, ops, op, via, intent, readDoc, cur,
                   steps, pre, pending, removed, chk, ret, networks, scanOut>>

\* main, any other choice
MenuInvalid ==
    /\ pc = "menu"
    /\ ops < MaxOps
    /\ ops' = ops + 1
    /\ op' = "invalid"
    /\ pc' = "pause"
    /\ UNCHANGED <<stamp, files, backups, copies, now, via, intent, readDoc, cur, steps, pre,
                   pending, removed, chk, ret, networks, scanOut>>

\* line 390: Enter at the prompt; the locals of the finished action are gone
Continue ==
    /\ pc = "pause"
    /\ pc' = "menu"
    /\ op' = "none"
    /\ via' = "none"
    /\ intent' = NoIntent
    /\ readDoc' = NoFile
    /\ cur' = EmptyMap
    /\ stamp' = <<>>
    /\ steps' = <<>>
    /\ pre' = files
    /\ pending' = {}
    /\ removed' = {}
    /\ chk' = NoCheck
    /\ ret' = "none"
    /\ networks' = <<>>
    /\ scanOut' = <<>>
    /\ UNCHANGED <<files, backups, copies, now, ops>>

Next ==
    \/ Tick
    \/ MenuScan
    \/ MenuConnectDhcp
    \/ MenuConnectStatic
    \/ Backup
    \/ ReadMerge
    \/ WriteConfig
    \/ Generate
    \/ Apply
    \/ Settle
    \/ Verify
    \/ MenuStatus
    \/ MenuList
    \/ MenuDisconnect
    \/ DisconnectFile
    \/ DisconnectApply
    \/ MenuExit
    \/ MenuInvalid
    \/ Continue

Spec == Init /\ [][Next]_vars

\* one call of connect_to_wifi with any arguments, outside main()
CallNext ==
    \/ ApiConnect
    \/ Backup
    \/ ReadMerge
    \/ WriteConfig
    \/ Generate
    \/ Apply
    \/ Settle
    \/ Verify
    \/ Continue

CallSpec == Init /\ [][CallNext]_vars

\* one call of scan_wifi_networks, outside main()
ScanNext ==
    \/ ScanCall
    \/ Continue

ScanSpec == Init /\ [][ScanNext]_vars

\* calls of connect_to_wifi one after the other, outside main()
RerunNext ==
    \/ RerunConnect
    \/ Backup
    \/ ReadMerge
    \/ WriteConfig
    \/ Generate
    \/ Apply
    \/ Settle
    \/ Verify
    \/ Continue

RerunSpec == Init /\ [][RerunNext]_vars

-----------------------------------------------------------------------------
(* Properties.                                                             *)

\* the steps of a connect attempt, in the order of the code
ConnectOrder == <<"backup", "read", "write", "generate", "apply", "settle", "verify">>

InConnect == op = "connect"

\* the attempt in flight wrote the reserved file
Wrote == InConnect /\ Len(steps) >= 3 /\ steps[3].ok

\* the attempt in flight has returned False
Failed == InConnect /\ pc = "pause" /\ ret = "False"

\* the target interface's block of the reserved file
WrittenDoc == files[ToolFile].map
WrittenBlock == WrittenDoc["network"]["wifis"][Interface]

\* C1: a connect attempt runs backup, read/merge, write, generate, apply,
\* settling wait, verification in this order, and a step runs only if every
\* earlier step succeeded: the directory is untouched unless backup and
\* read/merge succeeded, apply runs only after a successful generate, and
\* verification only after both.
C1_StrictSequence ==
    InConnect =>
        /\ Len(steps) <= Len(ConnectOrder)
        /\ \A k \in 1..Len(steps) : steps[k].step = ConnectOrder[k]
        /\ \A k \in 1..(Len(steps) - 1) : steps[k].ok
        /\ (files # pre => Wrote)
        /\ (chk # NoCheck => Len(steps) = 7 /\ steps[4].ok /\ steps[5].ok)

C1_Witness ==
    /\ Failed
    /\ Len(steps) = 4
    /\ ~steps[4].ok
    /\ files # pre

\* C2: the written document keeps every top-level key of the document that
\* was read and every block of another interface unchanged; it differs from
\* the document read only in the wifis block of the target interface.
C2_MergePreserves ==
    (Wrote /\ readDoc.kind = "map") =>
        LET old == readDoc.map
            new == WrittenDoc
        IN  /\ DOMAIN new = DOMAIN old
            /\ \A k \in DOMAIN old \ {"network"} : new[k] = old[k]
            /\ DOMAIN new["network"] = DOMAIN old["network"] \cup {"wifis"}
            /\ \A k \in DOMAIN old["network"] \ {"wifis"} :
                  new["network"][k] = old["network"][k]
            /\ DOMAIN new["network"]["wifis"] = DOMAIN Wifis(old) \cup {Interface}
            /\ \A ifc \in DOMAIN Wifis(old) \ {Interface} :
                  new["network"]["wifis"][ifc] = Wifis(old)[ifc]

C2_Witness ==
    /\ Wrote
    /\ readDoc = MapYaml(FullConfig)
    /\ WrittenDoc["x-site"] = "lab-3"
    /\ WrittenDoc["network"]["wifis"][OtherInterface] = OtherBlock
    /\ WrittenBlock # OldStaticBlock

\* C6: with DHCP addressing the written block of the target interface has
\* dhcp4 true and no addresses, gateway4 or nameservers field, whatever the
\* document read held for that interface and whatever static_ip was passed.
C6_DhcpHasNoStaticFields ==
    (Wrote /\ intent.dhcp) =>
        /\ WrittenBlock["dhcp4"] = TRUE
        /\ DOMAIN WrittenBlock = {"access-points", "dhcp4"}

C6_Witness ==
    /\ Wrote
    /\ intent.dhcp
    /\ intent.hasStatic
    /\ Has(intent.static, "address")
    /\ readDoc = MapYaml(FullConfig)

\* C10: when a connect attempt fails after the reserved file was written,
\* the file keeps the new content, every other file is as it was when the
\* attempt started, and the backups taken at its start are in the backup
\* directory with the content the files had.
C10_NoRollback ==
    (Failed /\ Wrote) =>
        /\ files[ToolFile] = Dump(cur)
        /\ \A n \in FileNames \ {ToolFile} : files[n] = pre[n]
        /\ \A n \in GlobYaml(pre) :
              /\ Has(backups, TimestampName(n, stamp[1]))
              /\ backups[TimestampName(n, stamp[1])] = pre[n]

C10_Witness ==
    /\ Failed
    /\ Wrote
    /\ Len(steps) = 5
    /\ ~steps[5].ok
    /\ files[ToolFile] # pre[ToolFile]
    /\ GlobYaml(pre) # {}

\* C3: disconnect_wifi removes only the reserved file that connect_to_wifi
\* writes, never a file the tool did not author.
C3_RemovesOnlyAuthored == removed \subseteq {ToolFile}

\* what holds of the code: only names of the glob '99-*.yaml' are removed,
\* each after its copy was written to the backup directory
C3_RemovesOnlyGlobbedAfterBackup ==
    \A n \in removed :
        /\ n \in Glob99(pre)
        /\ Has(backups, DisconnectName(n))
        /\ backups[DisconnectName(n)] = pre[n]

\* C4: check_connection reports failure when the interface cannot be queried
\* or is not up, whatever the address and the probe; failure when no address
\* is present; success when the interface is up with an address, also when
\* the reachability probe fails.
C4_Verification ==
    chk # NoCheck =>
        /\ (chk.status # "ok" \/ ~chk.out.nonempty \/ ~chk.out.stateUp) => ret = "False"
        /\ ~chk.out.inet => ret = "False"
        /\ (chk.status = "ok" /\ chk.out.stateUp /\ chk.out.inet) => ret = "True"

C4_Witness ==
    /\ op = "status"
    /\ chk.status = "ok"
    /\ chk.out.stateUp
    /\ chk.out.inet
    /\ chk.ping = "fail"
    /\ ret = "True"

\* a gateway, a DNS list the caller or the operator supplied
GatewaySupplied(i) == Has(i.static, "gateway") /\ i.static["gateway"] # ""
DnsSupplied(i) == Has(i.static, "dns") /\ i.static["dns"] \notin {<<>>, <<"">>}

\* C5: with static addressing the written block has dhcp4 false and the
\* given address; gateway4 is present iff a gateway was supplied and
\* nameservers iff a DNS list was supplied, also for the menu's intents.
C5_StaticFieldsIffSupplied ==
    (Wrote /\ StaticApplies(intent)) =>
        /\ WrittenBlock["dhcp4"] = FALSE
        /\ WrittenBlock["addresses"] = <<intent.static["address"]>>
        /\ Has(WrittenBlock, "gateway4") <=> GatewaySupplied(intent)
        /\ Has(WrittenBlock, "nameservers") <=> DnsSupplied(intent)

\* the existing document cannot be parsed, or has no 'network' section
Malformed(content) ==
    \/ content.kind = "bad"
    \/ content.kind = "map" /\ ~Has(content.map, "network")

\* C7: when the existing document is malformed, connect_to_wifi falls back
\* to the default document and goes on to merge and write.
C7_FallsBackToDefault ==
    (InConnect /\ Len(steps) >= 2 /\ Malformed(readDoc)) =>
        /\ steps[2].ok
        /\ cur = Merge(DefaultConfig, intent)

\* C8: no exception escapes a menu action; control returns to the loop.
C8_NoExceptionEscapes == pc # "crashed"

\* C9: when disconnect_wifi has returned, every file of the glob was
\* visited and the re-apply command was issued, whatever step failed.
C9_DisconnectRunsAllSteps ==
    (op = "disconnect" /\ pc = "pause") =>
        /\ pending = {}
        /\ \E k \in 1..Len(steps) : steps[k].step = "reapply"

\* C11: every backup in the backup directory is its own timestamped copy,
\* named <stem>_<timestamp>.yaml, and every copy ever made is still there:
\* no later connect or disconnect has overwritten or deleted one.
C11_BackupLineage ==
    /\ \A b \in DOMAIN backups : b.prefix = "" /\ Len(b.stamp) = 1
    /\ Cardinality(DOMAIN backups) = copies

\* C12: the menu's connect actions call connect_to_wifi only with a
\* non-empty SSID and, for the static-connect action, only with a static
\* address that is not empty (the weakest reading of "empty or malformed").
C12_InvalidRequestNeverReaches ==
    (InConnect /\ via \in {"menu2", "menu3"}) =>
        /\ intent.ssid # ""
        /\ via = "menu3" => intent.static["address"] # ""

\* a direct call of scan_wifi_networks has returned
Scanned == op = "scan" /\ pc = "pause" /\ Len(steps) = 2

\* the SSID markers of a scan output, and those that are not filtered out
EssidAt(lines) == {k \in 1..Len(lines) : lines[k].kind = "essid"}
ValidEssidAt(lines) == {k \in EssidAt(lines) : lines[k].val \notin {"", NullEssid}}

\* the n-th SSID marker of the output
NthEssid(lines, n) ==
    CHOOSE k \in EssidAt(lines) : Cardinality({j \in EssidAt(lines) : j < k}) = n - 1

\* the encryption markers after the SSID marker at k and before the next one
MarkersOf(lines, k) ==
    {j \in (k + 1)..Len(lines) :
        /\ lines[j].kind \in {"key_on", "key_off", "wpa", "wpa2"}
        /\ \A e \in EssidAt(lines) : ~(k < e /\ e < j)}

\* what each encryption marker stands for
Classification(l) ==
    CASE l.kind = "key_on" -> "Protegida"
      [] l.kind = "key_off" -> "Abierta"
      [] l.kind = "wpa" -> "WPA"
      [] l.kind = "wpa2" -> "WPA2"

\* what the parser makes of each encryption marker
ParserClassification(l) ==
    CASE l.kind \in {"key_on", "key_off"} -> "Protegida"
      [] l.kind = "wpa" -> "WPA"
      [] l.kind = "wpa2" -> "WPA2"

\* one entry per SSID marker, in order, classified by its last marker
EntriesOf(lines, Class(_)) ==
    [n \in 1..Cardinality(EssidAt(lines)) |->
        LET k == NthEssid(lines, n)
            M == MarkersOf(lines, k)
        IN [essid |-> lines[k].val,
            encryption |-> IF M = {} THEN "Desconocido"
                           ELSE Class(lines[CHOOSE j \in M : \A i \in M : i <= j])]]

\* C13: for a scan output whose SSID markers are all non-empty and non-null,
\* the result has exactly one entry per SSID marker, in order, each with the
\* classification of the last encryption marker after its SSID marker and
\* before the next (unknown when there is none); a filtered SSID marker
\* produces no entry.
C13_OneEntryPerMarker ==
    Scanned =>
        /\ Len(networks) = Cardinality(ValidEssidAt(scanOut))
        /\ EssidAt(scanOut) = ValidEssidAt(scanOut) =>
              networks = EntriesOf(scanOut, Classification)

\* C13, with each marker read as the parser reads it: the shape of the
\* result is as claimed
C13_ShapeHolds ==
    Scanned =>
        /\ Len(networks) = Cardinality(ValidEssidAt(scanOut))
        /\ EssidAt(scanOut) = ValidEssidAt(scanOut) =>
              networks = EntriesOf(scanOut, ParserClassification)

\* the scan command of line 81 was run and failed
ScanFailed == Len(steps) = 2 /\ steps[2].step = "scan" /\ ~steps[2].ok

\* C14: when the scan command fails, scan_wifi_networks returns the empty
\* list and no exception leaves it.
C14_ScanFailureGivesEmpty ==
    ScanFailed => pc = "pause" /\ op = "scan" /\ networks = <<>>

C14_Witness == ScanFailed /\ pc = "pause" /\ op = "scan" /\ networks = <<>>

\* every step of the attempt before the verification succeeded
AllStepsOk == Len(steps) = 7 /\ \A k \in 1..6 : steps[k].ok

\* the verification saw the interface up with an address
FoundUpWithAddress == chk.status = "ok" /\ chk.out.stateUp /\ chk.out.inet

\* C15: connect_to_wifi returns True only if the backup completed, the file
\* was written, generate and apply succeeded and the verification found the
\* interface up with an address; in every other case it returns False.
C15_SuccessOnlyIfAll ==
    (InConnect /\ pc = "pause") =>
        /\ ret = "True" => AllStepsOk /\ FoundUpWithAddress
        /\ ~(AllStepsOk /\ FoundUpWithAddress) => ret = "False"

C15_Witness ==
    InConnect /\ pc = "pause" /\ ret = "True" /\ AllStepsOk /\ FoundUpWithAddress

\* the reserved file as the attempt in flight found it
EarlierDoc == pre[ToolFile].map

\* a document with the target interface's block blanked
WithoutTarget(doc) == [doc EXCEPT !["network"]["wifis"][Interface] = EmptyMap]

\* the attempt in flight wrote the reserved file over one an earlier run wrote
WroteAgain == Wrote /\ pre[ToolFile].kind = "map"

\* C16: a second connect_to_wifi against the directory the first run left
\* writes the document the first run wrote when the intent renders the same
\* block, and a document that differs from it only in the target
\* interface's block otherwise, whichever file it reads as its base.
C16_ConnectIdempotent ==
    WroteAgain =>
        /\ WithoutTarget(WrittenDoc) = WithoutTarget(EarlierDoc)
        /\ WifiBlock(intent) = EarlierDoc["network"]["wifis"][Interface] =>
              WrittenDoc = EarlierDoc

\* the access-point map of the written block
WrittenAccessPoints == WrittenBlock["access-points"]

\* C17: the access-point map of the written block has exactly one key, the
\* SSID of the intent, and its entry has a password field, holding the
\* passphrase, exactly when the passphrase is neither None nor "".
C17_OneAccessPoint ==
    Wrote =>
        /\ DOMAIN WrittenAccessPoints = {intent.ssid}
        /\ Has(WrittenAccessPoints[intent.ssid], "password")
              <=> intent.password \notin {PyNone, ""}
        /\ Has(WrittenAccessPoints[intent.ssid], "password") =>
              WrittenAccessPoints[intent.ssid] = Put(EmptyMap, "password", intent.password)

C17_Witness ==
    /\ Wrote
    /\ intent.password = ""
    /\ WrittenAccessPoints = Put(EmptyMap, intent.ssid, EmptyMap)

\* the n-th SSID marker that is not filtered out
NthValidEssid(lines, n) ==
    CHOOSE k \in ValidEssidAt(lines) :
        Cardinality({j \in ValidEssidAt(lines) : j < k}) = n - 1

\* what the parser makes of the last encryption marker between the SSID
\* marker at k and the next SSID marker, filtered out or not
ClassUntilNextEssid(lines, k) ==
    LET M == MarkersOf(lines, k) IN
    IF M = {} THEN "Desconocido"
    ELSE ParserClassification(lines[CHOOSE j \in M : \A i \in M : i <= j])

\* C18: encryption markers change the most recently started entry only
\* until the next SSID marker: the markers after an SSID marker that was
\* filtered out leave the entries started before it as they were.
C18_FilteredMarkerEndsEntry ==
    Scanned =>
        \A n \in 1..Len(networks) :
            networks[n].encryption =
                ClassUntilNextEssid(scanOut, NthValidEssid(scanOut, n))

\* C19: in the result of a scan whose SSID markers are all kept, an entry
\* whose only encryption marker is an 'Encryption key:' line is 'Abierta'
\* when the line reports the key off and 'Protegida' when it reports it on.
C19_KeyOffIsOpen ==
    (Scanned /\ EssidAt(scanOut) = ValidEssidAt(scanOut)) =>
        \A n \in 1..Len(networks) :
            LET M == MarkersOf(scanOut, NthEssid(scanOut, n)) IN
            \A j \in M :
                (M = {j} /\ scanOut[j].kind \in {"key_on", "key_off"}) =>
                    networks[n].encryption =
                        IF scanOut[j].kind = "key_off" THEN "Abierta" ELSE "Protegida"

\* the files of the directory other than the reserved one are as the
\* operation in flight found them
ForeignFilesKept == \A n \in FileNames \ {ToolFile} : files[n] = pre[n]

\* C20: whatever the operation, every file the tool did not write keeps its
\* existence and content, and scan, status and list change no file.
C20_ForeignFilesKept ==
    /\ ForeignFilesKept
    /\ op \in {"scan", "status", "list"} => files = pre

\* C20 for every operation but disconnect
C20_KeptUnlessDisconnect ==
    /\ op # "disconnect" => ForeignFilesKept
    /\ op \in {"scan", "status", "list"} => files = pre /\ copies = 0

====
